---- MODULE Spec2Model ----
(***************************************************************************)
(* Cayce Vault API (src/main.py): three HTTP operations that forward a     *)
(* query to a search service and a language-model service and reshape the  *)
(* replies.  A request is a handler invocation; it takes one step per      *)
(* stretch of code between two outbound calls.                             *)
(*                                                                         *)
(* Python values are pairs <<type, payload>>; a str is a sequence of       *)
(* atoms (single characters where whitespace matters, whole literals       *)
(* elsewhere); a dict is a function whose DOMAIN is its key set.           *)
(***************************************************************************)
EXTENDS Integers, Sequences, FiniteSets, TLC

VARIABLES environ, meili, maxInFlight, req, frame

vars == <<environ, meili, maxInFlight, req, frame>>

(* ---------------------------- bounds ----------------------------------- *)
NumReqs == 2
MaxHits == 3
MaxOver == 2

Reqs == 1..NumReqs

(* ------------------------- Python values ------------------------------- *)
None == <<"NoneType", <<>>>>
Str(s) == <<"str", s>>
IsStr(v) == v[1] = "str"

\* bool(v) for None and str values
Truthy(v) == IsStr(v) /\ v[2] # <<>>

\* f"{v}": a str is inserted as is, None as the text None
Format(v) == IF IsStr(v) THEN v[2] ELSE <<"None">>

\* dict.get(key, default)
Get(d, key, default) == IF key \in DOMAIN d THEN d[key] ELSE default

Min(a, b) == IF a <= b THEN a ELSE b

\* the characters str.strip() removes; those TLA+ has no escape for are named by
\* their Python escapes
Whitespace ==
    {" ", "\t", "\n", "\r", "\f", "\\x0b", "\\x1c", "\\x1d", "\\x1e", "\\x1f", "\\x85",
     "\\xa0", "\\u1680", "\\u2000", "\\u2001", "\\u2002", "\\u2003", "\\u2004",
     "\\u2005", "\\u2006", "\\u2007", "\\u2008", "\\u2009", "\\u200a", "\\u2028",
     "\\u2029", "\\u202f", "\\u205f", "\\u3000"}

RECURSIVE lstrip(_)
lstrip(s) == IF s # <<>> /\ Head(s) \in Whitespace THEN lstrip(Tail(s)) ELSE s

RECURSIVE rstrip(_)
rstrip(s) ==
    IF s # <<>> /\ s[Len(s)] \in Whitespace THEN rstrip(SubSeq(s, 1, Len(s) - 1)) ELSE s

\* str.strip()
strip(s) == rstrip(lstrip(s))

\* sub in s, for strs
Contains(s, sub) ==
    \E i \in 0..(Len(s) - Len(sub)) : SubSeq(s, i + 1, i + Len(sub)) = sub

StartsWith(s, pre) == Len(pre) <= Len(s) /\ SubSeq(s, 1, Len(pre)) = pre

\* x in list
InList(x, l) == \E i \in 1..Len(l) : l[i] = x

SeqsUpTo(S, n) == UNION {[1..k -> S] : k \in 0..n}

(* --------------------------- configuration ----------------------------- *)
PRECISION_INDEX == "cayce_vault"
INSIGHT_INDEX == "cayce_chunks"

PRECISION_LIMIT == 10
INSIGHT_LIMIT == 8

\* os.getenv(name): None when unset, else the str value
EnvVals == {None, Str(<<>>), Str(<<"key">>)}

\* Client(MEILISEARCH_URL, MEILISEARCH_MASTER_KEY), built once at import
Client(url, key) == [url |-> url, api_key |-> key]

(* ---------------------------- HTTP replies ----------------------------- *)
NoReply ==
    [status |-> 0, kind |-> "none", detail |-> <<>>, results |-> <<>>,
     answer |-> <<>>, sources |-> <<>>, health_status |-> "",
     meilisearch |-> FALSE, openai |-> ""]

\* raise HTTPException(status_code=500, detail=...)
HTTPException(detail) == [NoReply EXCEPT !.status = 500, !.kind = "error", !.detail = detail]

\* an exception that leaves the handler: the server answers 500 Internal Server Error
Unhandled == [NoReply EXCEPT !.status = 500, !.kind = "crash",
                             !.detail = <<"Internal Server Error">>]

\* str(e) of an HTTPException
HTTPExceptionStr(detail) == <<"500", ": ">> \o detail

NoCall == [kind |-> "none", msg |-> <<>>, hits |-> <<>>, content |-> None, value |-> FALSE]

IdleReq ==
    [op |-> "idle", pc |-> "idle", query |-> <<>>, results |-> NoCall,
     prompt |-> <<>>, response |-> NoCall, reply |-> NoReply,
     searchCalls |-> 0, searchIndex |-> "", modelCalls |-> 0, probeCalls |-> 0]

EmptyFrame == [sources |-> <<>>, context |-> <<>>]

\* the frame that holds a request's local variables
FrameOfShared(r) == 1
FrameOf(r) == r

InFlight == Cardinality({r \in Reqs : req[r].pc # "idle"})

Queries == {<<>>, <<"q">>}
ErrMsgs == {<<"connection refused">>}

(* ------------------------- search service ------------------------------ *)
\* index.search(query, {"limit": n, ...}): the first n matching documents
SearchService(matched, limit) == SubSeq(matched, 1, Min(Len(matched), limit))

Raise(m) == [NoCall EXCEPT !.kind = "raise", !.msg = m]
Malformed == [NoCall EXCEPT !.kind = "malformed"]
Hits(h) == [NoCall EXCEPT !.kind = "ok", !.hits = h]

\* str(KeyError("hits"))
KeyErrorHits == <<"'hits'">>

\* a long result list: n documents, repeating base
Cycle(base, n) == [i \in 1..n |-> base[((i - 1) % Len(base)) + 1]]

(* ------------------------- Precision Search ---------------------------- *)
pFull ==
    ("id" :> Str(<<"d1">>)) @@ ("reading_id" :> Str(<<"r1">>)) @@
    ("reading_text" :> Str(<<"a">>)) @@ ("date" :> Str(<<"1931">>)) @@
    ("category" :> Str(<<"health">>))
pBare == ("reading_id" :> Str(<<"r2">>)) @@ ("reading_text" :> Str(<<"b">>))
pEmpty == <<>>
pNullId == ("reading_id" :> None) @@ ("reading_text" :> Str(<<"a">>))
pNullDate ==
    ("reading_id" :> Str(<<"r1">>)) @@ ("reading_text" :> Str(<<"a">>)) @@ ("date" :> None)

PrecisionHits == {pFull, pBare, pEmpty, pNullId, pNullDate}

LongBases == {<<pBare>>, <<pFull, pBare>>, <<pBare, pEmpty, pFull>>}

PrecisionMatches(cap) ==
    IF cap = 1
    THEN SeqsUpTo(PrecisionHits, MaxHits) \cup
         {Cycle(b, n) : b \in LongBases,
                        n \in (PRECISION_LIMIT - 1)..(PRECISION_LIMIT + MaxOver)}
    ELSE {<<>>, <<pBare>>}

\* the search parameters with "limit" left out: the service's default of 20 applies
PrecisionParamsNoLimit == [limit |-> 20]
PrecisionParams == [limit |-> PRECISION_LIMIT]

\* the fields passed to SearchResult(...) for one hit
SearchResultArgs(hit) ==
    [id |-> Get(hit, "id", Get(hit, "reading_id", Str(<<>>))),
     reading_id |-> Get(hit, "reading_id", Str(<<>>)),
     text |-> Get(hit, "reading_text", Str(<<>>)),
     date |-> Get(hit, "date", Str(<<>>)),
     category |-> Get(hit, "category", Str(<<>>))]

\* the fields of SearchResult, in declaration order
SearchResultFields == <<"id", "reading_id", "text", "date", "category">>

\* the fields SearchResult (all fields str) rejects, in declaration order
InvalidFields(args) ==
    LET Rejected(f) == ~IsStr(args[f])
        bad == SelectSeq(SearchResultFields, Rejected)
    IN [k \in 1..Len(bad) |-> <<bad[k]>>]

\* one block of str(ValidationError) per rejected location: a str was required, None given
RECURSIVE ErrorBlocks(_)
ErrorBlocks(locs) ==
    IF locs = <<>> THEN <<>>
    ELSE <<"\n">> \o Head(locs) \o
         <<"\n", "  Input should be a valid string ",
           "[type=string_type, input_value=None, input_type=NoneType]",
           "\n", "    For further information visit ",
           "https://errors.pydantic.dev/2.13/v/string_type">> \o
         ErrorBlocks(Tail(locs))

\* str(ValidationError): the count line, then one block per rejected location
ValidationErrorStr(locs, model) ==
    <<ToString(Len(locs)),
      IF Len(locs) = 1 THEN " validation error for " ELSE " validation errors for ",
      model>> \o ErrorBlocks(locs)

\* the loop over results["hits"]: the list built, or the first exception raised
RECURSIVE FormatHits(_, _)
FormatHits(hits, formatted) ==
    IF hits = <<>> THEN [ok |-> TRUE, formatted |-> formatted, msg |-> <<>>]
    ELSE LET args == SearchResultArgs(Head(hits)) IN
         IF InvalidFields(args) # <<>>
         THEN [ok |-> FALSE, formatted |-> <<>>,
               msg |-> ValidationErrorStr(InvalidFields(args), "SearchResult")]
         ELSE FormatHits(Tail(hits), Append(formatted, args))

\* except Exception as e: ... swallowed into an empty successful list
PrecisionExceptDegraded(msg) == [NoReply EXCEPT !.status = 200, !.kind = "list"]
\* except Exception as e: raise HTTPException(500, f"Meilisearch error: {str(e)}")
PrecisionExcept(msg) == HTTPException(<<"Meilisearch error: ">> \o msg)

\* the reply of precision_search once index.search has returned or raised
PrecisionReply(out) ==
    CASE out.kind = "raise" -> PrecisionExcept(out.msg)
      [] out.kind = "malformed" -> PrecisionExcept(KeyErrorHits)
      [] OTHER ->
            LET f == FormatHits(out.hits, <<>>) IN
            IF f.ok THEN [NoReply EXCEPT !.status = 200, !.kind = "list",
                                         !.results = f.formatted]
            ELSE PrecisionExcept(f.msg)

PrecisionOutcomes(cap) ==
    {Raise(m) : m \in ErrMsgs} \cup {Malformed} \cup
    {Hits(SearchService(m, PrecisionParams.limit)) : m \in PrecisionMatches(cap)}

PrecisionBegin(r) ==
    /\ req[r].pc = "idle"
    /\ InFlight < maxInFlight
    /\ \E q \in Queries :
       req' = [req EXCEPT ![r] = [IdleReq EXCEPT !.op = "precision", !.pc = "search",
                                                 !.query = q, !.searchCalls = 1,
                                                 !.searchIndex = PRECISION_INDEX]]
    /\ UNCHANGED <<environ, meili, maxInFlight, frame>>

PrecisionSearchReturn(r) ==
    /\ req[r].op = "precision"
    /\ req[r].pc = "search"
    /\ \E out \in PrecisionOutcomes(maxInFlight) :
       req' = [req EXCEPT ![r].pc = "done", ![r].results = out,
                          ![r].reply = PrecisionReply(out)]
    /\ UNCHANGED <<environ, meili, maxInFlight, frame>>

(* -------------------------- Insight Search ----------------------------- *)
iHit(rid, text) == ("reading_id" :> rid) @@ ("text" :> text)
iNoRid(text) == "text" :> text
iNoText(rid) == "reading_id" :> rid


InsightHits ==
    {iHit(Str(<<"r1">>), Str(<<"a">>)), iHit(Str(<<"r1">>), Str(<<"b">>)),
     iHit(Str(<<"r2">>), Str(<<" ">>)), iNoRid(Str(<<"a">>)), iNoText(Str(<<"r2">>)),
     <<>>, iHit(Str(<<"Unknown">>), Str(<<"b">>)), iHit(Str(<<>>), Str(<<>>)),
     iHit(None, Str(<<"a">>))}

InsightMatches(cap) ==
    IF cap = 1
    THEN SeqsUpTo(InsightHits, MaxHits)
    ELSE {<<>>, <<iHit(Str(<<"r1">>), Str(<<"a">>))>>, <<iHit(Str(<<"r2">>), Str(<<" ">>))>>,
          <<iHit(Str(<<"r2">>), Str(<<"a">>)), iNoRid(Str(<<"a">>)),
            iHit(Str(<<"r2">>), Str(<<"b">>))>>}

InsightParams == [limit |-> INSIGHT_LIMIT]

InsightOutcomes(cap) ==
    {Raise(m) : m \in ErrMsgs} \cup {Malformed} \cup
    {Hits(SearchService(m, InsightParams.limit)) : m \in InsightMatches(cap)}

MissingOpenAI == <<"Missing ", "OPENAI_API_KEY", " in environment">>
MissingMeili == <<"Missing ", "MEILISEARCH_MASTER_KEY", " in environment">>

\* the credential checks that skip the search-service key
CredentialCheckOpenAIOnly(env) ==
    IF ~Truthy(env.OPENAI_API_KEY) THEN MissingOpenAI ELSE <<>>
\* the detail of the HTTPException the two credential checks raise, or the empty str
CredentialCheck(env) ==
    IF ~Truthy(env.OPENAI_API_KEY) THEN MissingOpenAI
    ELSE IF ~Truthy(env.MEILISEARCH_MASTER_KEY) THEN MissingMeili
    ELSE <<>>

\* except Exception as e: raise HTTPException(500, f"Insight error: {str(e)}")
InsightExcept(msg) == HTTPException(<<"Insight error: ">> \o msg)

\* f"[{rid}] {text}\n\n"
Tag(rid, text) == <<"[">> \o Format(rid) \o <<"]", " ">> \o Format(text) \o <<"\n", "\n">>

\* the loop body without the membership test: every hit is recorded
HitStepNoDedup(acc, hit) ==
    LET rid == Get(hit, "reading_id", Str(<<"Unknown">>))
        text == Get(hit, "text", Str(<<>>))
    IN [sources |-> Append(acc.sources, rid), context |-> acc.context \o Tag(rid, text)]
\* the loop body appending the text without its bracketed identifier
HitStepNoTag(acc, hit) ==
    LET rid == Get(hit, "reading_id", Str(<<"Unknown">>))
        text == Get(hit, "text", Str(<<>>))
    IN IF ~InList(rid, acc.sources)
       THEN [sources |-> Append(acc.sources, rid), context |-> acc.context \o Format(text)]
       ELSE acc
\* the body of the loop over results["hits"]
HitStep(acc, hit) ==
    LET rid == Get(hit, "reading_id", Str(<<"Unknown">>))
        text == Get(hit, "text", Str(<<>>))
    IN IF ~InList(rid, acc.sources)
       THEN [sources |-> Append(acc.sources, rid), context |-> acc.context \o Tag(rid, text)]
       ELSE acc

RECURSIVE WalkHits(_, _)
WalkHits(hits, acc) ==
    IF hits = <<>> THEN acc ELSE WalkHits(Tail(hits), HitStep(acc, Head(hits)))

\* the short-circuit never taken
NoContextNever(context) == FALSE
\* not context.strip()
NoContext(context) == strip(context) = <<>>

NoReadings == <<"No relevant Readings found for this query.">>

\* the items of sources InsightResponse (list[str]) rejects: sources.<index from 0>
SourceLocs(sources) ==
    LET Rejected(i) == ~IsStr(sources[i])
        bad == SelectSeq([i \in 1..Len(sources) |-> i], Rejected)
    IN [k \in 1..Len(bad) |-> <<"sources.", ToString(bad[k] - 1)>>]

\* InsightResponse(answer=..., sources=...): the reply, or the 500 its validation error becomes
InsightResponse(answer, sources) ==
    LET bad == SourceLocs(sources) IN
    IF bad # <<>> THEN InsightExcept(ValidationErrorStr(bad, "InsightResponse"))
    ELSE [NoReply EXCEPT !.status = 200, !.kind = "insight",
                         !.answer = answer, !.sources = sources]

Guidelines == <<"You are an AI research assistant ... Guidelines: ...">>
Prompt(context, query) ==
    Guidelines \o <<"Relevant Cayce Readings:", "\n">> \o context \o <<"\n">> \o
    <<"User Question: \"">> \o query \o <<"\"", "\n", "\n">> \o <<"Response:">>

Disclaimer == <<"\n", "\n", "\n", "<small>---...</small>">>

Contents == {<<>>, <<"\t", " ", "x", " ", "y", "\r", "\n">>}

ModelOutcomes ==
    {Raise(m) : m \in ErrMsgs} \cup
    {[NoCall EXCEPT !.kind = "no_choices"], [NoCall EXCEPT !.kind = "ok"]} \cup
    {[NoCall EXCEPT !.kind = "ok", !.content = Str(c)] : c \in Contents}

IndexErrorStr == <<"list index out of range">>
AttributeErrorStr == <<"'NoneType' object has no attribute 'strip'">>

\* the reply of insight_search once client.chat.completions.create has returned or raised
ModelReply(out, sources) ==
    CASE out.kind = "raise" -> InsightExcept(out.msg)
      [] out.kind = "no_choices" -> InsightExcept(IndexErrorStr)
      [] OTHER ->
            IF ~IsStr(out.content) THEN InsightExcept(AttributeErrorStr)
            ELSE InsightResponse(strip(out.content[2]) \o Disclaimer, sources)

InsightBegin(r) ==
    /\ req[r].pc = "idle"
    /\ InFlight < maxInFlight
    /\ \E q \in Queries :
       LET missing == CredentialCheck(environ) IN
       req' = [req EXCEPT ![r] =
                 IF missing # <<>>
                 THEN [IdleReq EXCEPT !.op = "insight", !.pc = "done", !.query = q,
                                      !.reply = InsightExcept(HTTPExceptionStr(missing))]
                 ELSE [IdleReq EXCEPT !.op = "insight", !.pc = "search", !.query = q,
                                      !.searchCalls = 1, !.searchIndex = INSIGHT_INDEX]]
    /\ UNCHANGED <<environ, meili, maxInFlight, frame>>

InsightSearchReturn(r) ==
    /\ req[r].op = "insight"
    /\ req[r].pc = "search"
    /\ \E out \in InsightOutcomes(maxInFlight) :
       IF out.kind # "ok"
       THEN /\ req' = [req EXCEPT ![r].pc = "done", ![r].results = out,
                                  ![r].reply = InsightExcept(IF out.kind = "raise"
                                                             THEN out.msg ELSE KeyErrorHits)]
            /\ UNCHANGED frame
       ELSE LET acc == WalkHits(out.hits, EmptyFrame) IN
            /\ frame' = [frame EXCEPT ![FrameOf(r)] = acc]
            /\ IF NoContext(acc.context)
               THEN req' = [req EXCEPT ![r].pc = "done", ![r].results = out,
                                       ![r].reply = InsightResponse(NoReadings, <<>>)]
               ELSE req' = [req EXCEPT ![r].pc = "model", ![r].results = out,
                                       ![r].prompt = Prompt(acc.context, req[r].query),
                                       ![r].modelCalls = @ + 1]
    /\ UNCHANGED <<environ, meili, maxInFlight>>

InsightModelReturn(r) ==
    /\ req[r].op = "insight"
    /\ req[r].pc = "model"
    /\ \E out \in ModelOutcomes :
       req' = [req EXCEPT ![r].pc = "done", ![r].response = out,
                          ![r].reply = ModelReply(out, frame[FrameOf(r)].sources)]
    /\ UNCHANGED <<environ, meili, maxInFlight, frame>>

(* ---------------------------- Health Check ----------------------------- *)
ProbeOutcomes ==
    {Raise(m) : m \in ErrMsgs} \cup {[NoCall EXCEPT !.kind = "ok", !.value = b] : b \in BOOLEAN}

\* the reply of health_check once meili.health() has returned or raised
HealthReply(out, env) ==
    IF out.kind = "raise" THEN Unhandled
    ELSE [NoReply EXCEPT !.status = 200, !.kind = "health", !.health_status = "ok",
                         !.meilisearch = out.value,
                         !.openai = IF Truthy(env.OPENAI_API_KEY)
                                    THEN "configured" ELSE "missing"]

HealthBegin(r) ==
    /\ req[r].pc = "idle"
    /\ InFlight < maxInFlight
    /\ req' = [req EXCEPT ![r] = [IdleReq EXCEPT !.op = "health", !.pc = "probe",
                                                 !.probeCalls = 1]]
    /\ UNCHANGED <<environ, meili, maxInFlight, frame>>

HealthProbeReturn(r) ==
    /\ req[r].op = "health"
    /\ req[r].pc = "probe"
    /\ \E out \in ProbeOutcomes :
       req' = [req EXCEPT ![r].pc = "done", ![r].response = out,
                          ![r].reply = HealthReply(out, environ)]
    /\ UNCHANGED <<environ, meili, maxInFlight, frame>>

(* ------------------------------ requests ------------------------------- *)
\* the reply is sent and the handler's frame is discarded
Respond(r) ==
    /\ req[r].pc = "done"
    /\ req' = [req EXCEPT ![r] = IdleReq]
    /\ frame' = [frame EXCEPT ![FrameOf(r)] = EmptyFrame]
    /\ UNCHANGED <<environ, meili, maxInFlight>>

MEILISEARCH_URL == Str(<<"http://meili">>)

\* the state after import, for a given degree of request concurrency
Startup(cap) ==
    /\ environ \in [OPENAI_API_KEY : EnvVals, MEILISEARCH_MASTER_KEY : EnvVals,
                    MEILISEARCH_URL : {MEILISEARCH_URL}]
    /\ meili = Client(environ.MEILISEARCH_URL, environ.MEILISEARCH_MASTER_KEY)
    /\ maxInFlight = cap
    /\ req = [r \in Reqs |-> IdleReq]
    /\ frame = [r \in Reqs |-> EmptyFrame]

\* handlers run to completion one at a time (blocking calls inside async def)
Init == Startup(1)

\* handlers suspended at their outbound calls may interleave
InitConc == Startup(NumReqs)

Next ==
    \E r \in Reqs :
        \/ PrecisionBegin(r)
        \/ PrecisionSearchReturn(r)
        \/ InsightBegin(r)
        \/ InsightSearchReturn(r)
        \/ InsightModelReturn(r)
        \/ HealthBegin(r)
        \/ HealthProbeReturn(r)
        \/ Respond(r)

Spec == Init /\ [][Next]_vars
SpecConc == InitConc /\ [][Next]_vars

(* ------------------------------- claims -------------------------------- *)
Absent(name) == ~Truthy(environ[name])
HitsOf(r) == req[r].results.hits
RidOf(hit) == Get(hit, "reading_id", Str(<<"Unknown">>))
TextOf(hit) == Get(hit, "text", Str(<<>>))

\* C1: GET /health always completes with HTTP 200 and status "ok", and reports
\* meilisearch false when the reachability probe raises.
C1_HealthNeverFails ==
    \A r \in Reqs :
        (req[r].op = "health" /\ req[r].pc = "done") =>
            /\ req[r].reply.status = 200
            /\ req[r].reply.health_status = "ok"
            /\ (req[r].response.kind = "raise" => req[r].reply.meilisearch = FALSE)

\* C2: with a credential absent, an Insight request ends in a 500 whose message names
\* a missing credential, and neither the search nor the model is ever called.
C2_MissingCredential ==
    \A r \in Reqs :
        (req[r].op = "insight"
          /\ (Absent("OPENAI_API_KEY") \/ Absent("MEILISEARCH_MASTER_KEY"))) =>
            /\ req[r].pc = "done"
            /\ req[r].reply.status = 500
            /\ req[r].reply.kind = "error"
            /\ req[r].searchCalls = 0
            /\ req[r].modelCalls = 0
            /\ IF Absent("OPENAI_API_KEY")
               THEN Contains(req[r].reply.detail, <<"OPENAI_API_KEY">>)
               ELSE Contains(req[r].reply.detail, <<"MEILISEARCH_MASTER_KEY">>)

C2_Witness ==
    \E r \in Reqs :
        /\ req[r].op = "insight" /\ req[r].pc = "done"
        /\ Absent("MEILISEARCH_MASTER_KEY") /\ ~Absent("OPENAI_API_KEY")
        /\ req[r].reply.status = 500

\* C3: a successful search with zero hits ends the Insight request successfully with
\* the fixed answer and no sources, the model never having been called.
C3_ZeroHits ==
    \A r \in Reqs :
        (req[r].op = "insight" /\ req[r].results.kind = "ok" /\ HitsOf(r) = <<>>) =>
            /\ req[r].pc = "done"
            /\ req[r].reply.status = 200
            /\ req[r].reply.answer = <<"No relevant Readings found for this query.">>
            /\ req[r].reply.sources = <<>>
            /\ req[r].modelCalls = 0

C3_Witness ==
    \E r \in Reqs :
        /\ req[r].op = "insight" /\ req[r].pc = "done"
        /\ req[r].results.kind = "ok" /\ HitsOf(r) = <<>>
        /\ req[r].searchCalls = 1

\* C4: the context passed to the model holds, for every hit of the search reply,
\* the entry "[identifier] text" and a blank line, repeated identifiers included.
C4_ContextHasEveryHit ==
    \A r \in Reqs :
        (req[r].op = "insight" /\ req[r].modelCalls >= 1) =>
            \A i \in 1..Len(HitsOf(r)) :
                Contains(req[r].prompt, Tag(RidOf(HitsOf(r)[i]), TextOf(HitsOf(r)[i])))

FirstIndex(l, x) == CHOOSE i \in 1..Len(l) : l[i] = x /\ \A j \in 1..(i - 1) : l[j] # x

\* C5: after a non-empty search reply and a successful model call, the returned sources
\* are the distinct reading identifiers of the hits (Unknown for a hit without one),
\* each once and nothing else, in the order of their first occurrence.
C5_SourcesDistinctInOrder ==
    \A r \in Reqs :
        (req[r].op = "insight" /\ req[r].pc = "done" /\ req[r].reply.status = 200
          /\ HitsOf(r) # <<>>) =>
            LET ids == [i \in 1..Len(HitsOf(r)) |-> RidOf(HitsOf(r)[i])]
                src == req[r].reply.sources
            IN /\ \A i \in 1..Len(ids) : InList(ids[i], src)
               /\ \A j \in 1..Len(src) : InList(src[j], ids)
               /\ \A j, k \in 1..Len(src) : j # k => src[j] # src[k]
               /\ \A j, k \in 1..Len(src) :
                     j < k => FirstIndex(ids, src[j]) < FirstIndex(ids, src[k])

C5_Witness ==
    \E r \in Reqs :
        /\ req[r].op = "insight" /\ req[r].pc = "done" /\ req[r].reply.status = 200
        /\ Len(HitsOf(r)) = 3
        /\ Len(req[r].reply.sources) = 2
        /\ \E i \in 1..3 : "reading_id" \notin DOMAIN HitsOf(r)[i]
        /\ RidOf(HitsOf(r)[1]) = RidOf(HitsOf(r)[3])

\* C6: a successful Precision Search returns at most 10 results, one per hit in the
\* service's order, with str id, reading_id and text, id falling back to reading_id,
\* date and category empty when absent; the search is called for every query.
C6_PrecisionResults ==
    \A r \in Reqs :
        (req[r].op = "precision") =>
            /\ req[r].searchCalls = 1
            /\ (req[r].pc = "done" /\ req[r].reply.status = 200) =>
                  LET hits == HitsOf(r)
                      res == req[r].reply.results
                  IN /\ Len(res) <= 10
                     /\ Len(res) = Len(hits)
                     /\ \A i \in 1..Len(res) :
                           LET h == hits[i]
                               x == res[i]
                           IN /\ IsStr(x.id) /\ IsStr(x.reading_id) /\ IsStr(x.text)
                              /\ x.reading_id = IF "reading_id" \in DOMAIN h
                                                THEN h["reading_id"] ELSE Str(<<>>)
                              /\ x.text = IF "reading_text" \in DOMAIN h
                                          THEN h["reading_text"] ELSE Str(<<>>)
                              /\ x.id = IF "id" \in DOMAIN h THEN h["id"] ELSE x.reading_id
                              /\ x.date = IF "date" \in DOMAIN h
                                          THEN h["date"] ELSE Str(<<>>)
                              /\ x.category = IF "category" \in DOMAIN h
                                              THEN h["category"] ELSE Str(<<>>)

C6_Witness ==
    \E r \in Reqs :
        /\ req[r].op = "precision" /\ req[r].pc = "done" /\ req[r].reply.status = 200
        /\ req[r].query = <<>>
        /\ Len(req[r].reply.results) = 10
        /\ \E i \in 1..10 : DOMAIN HitsOf(r)[i] = {}
        /\ \E i \in 1..10 : "id" \in DOMAIN HitsOf(r)[i]

ErrorPrefix(op) == IF op = "precision" THEN <<"Meilisearch error: ">> ELSE <<"Insight error: ">>

\* C7: a failed search or model call ends the Precision or Insight request at once in a
\* 500 whose detail is the operation's prefix and the exception's message; each
\* service is called at most once per request and no failure yields a 200.
C7_FailuresPropagate ==
    \A r \in Reqs :
        (req[r].op \in {"precision", "insight"}) =>
            /\ req[r].searchCalls <= 1
            /\ req[r].modelCalls <= 1
            /\ (req[r].results.kind \in {"raise", "malformed"}) =>
                  /\ req[r].pc = "done"
                  /\ req[r].modelCalls = 0
                  /\ req[r].reply.status = 500
                  /\ req[r].reply.detail =
                        ErrorPrefix(req[r].op) \o
                        (IF req[r].results.kind = "raise"
                         THEN req[r].results.msg ELSE <<"'hits'">>)
            /\ (req[r].response.kind \in {"raise", "no_choices"}
                 \/ (req[r].response.kind = "ok" /\ req[r].response.content = None)) =>
                  /\ req[r].pc = "done"
                  /\ req[r].reply.status = 500
                  /\ StartsWith(req[r].reply.detail, <<"Insight error: ">>)
                  /\ (req[r].response.kind = "raise" =>
                        req[r].reply.detail = <<"Insight error: ">> \o req[r].response.msg)

C7_Witness ==
    \E r \in Reqs :
        /\ req[r].op = "insight" /\ req[r].pc = "done"
        /\ req[r].results.kind = "ok"
        /\ req[r].response.kind = "raise"
        /\ req[r].reply.status = 500

\* C8: with a credential absent, the detail of the Insight 500 is the missing-credential
\* message itself: it begins with Missing OPENAI_API_KEY, or with Missing
\* MEILISEARCH_MASTER_KEY when only the search-service key is absent.
C8_MissingDetailVerbatim ==
    \A r \in Reqs :
        (req[r].op = "insight" /\ req[r].pc = "done") =>
            /\ Absent("OPENAI_API_KEY") =>
                  StartsWith(req[r].reply.detail, <<"Missing ", "OPENAI_API_KEY">>)
            /\ (~Absent("OPENAI_API_KEY") /\ Absent("MEILISEARCH_MASTER_KEY")) =>
                  StartsWith(req[r].reply.detail, <<"Missing ", "MEILISEARCH_MASTER_KEY">>)

\* the reply a request gives when it runs alone and receives the same replies
SoloReply(q) ==
    CASE q.op = "precision" -> PrecisionReply(q.results)
      [] q.op = "health" -> HealthReply(q.response, environ)
      [] OTHER ->
            IF CredentialCheck(environ) # <<>>
            THEN InsightExcept(HTTPExceptionStr(CredentialCheck(environ)))
            ELSE IF q.results.kind = "raise" THEN InsightExcept(q.results.msg)
            ELSE IF q.results.kind = "malformed" THEN InsightExcept(KeyErrorHits)
            ELSE LET acc == WalkHits(q.results.hits, EmptyFrame) IN
                 IF NoContext(acc.context) THEN InsightResponse(NoReadings, <<>>)
                 ELSE ModelReply(q.response, acc.sources)

RepliesAsAlone == \A r \in Reqs : req[r].pc = "done" => req[r].reply = SoloReply(req[r])

\* C9: under every interleaving of requests the client handle is still the one built
\* at import from the configuration, and each finished request's reply is the one it
\* gives alone with the same service replies.
C9_NoInterference ==
    /\ meili = Client(environ.MEILISEARCH_URL, environ.MEILISEARCH_MASTER_KEY)
    /\ environ.MEILISEARCH_URL = MEILISEARCH_URL
    /\ RepliesAsAlone

C9_Witness ==
    \E r1, r2 \in Reqs :
        /\ r1 # r2
        /\ req[r1].op = "insight" /\ req[r1].pc = "done" /\ req[r1].reply.status = 200
        /\ req[r1].reply.sources # <<>>
        /\ req[r2].op = "insight" /\ req[r2].pc = "model"
        /\ HitsOf(r1) # HitsOf(r2)

\* C10: in an Insight request whose search succeeded, the model is called once when
\* the search returned a hit and never otherwise, whatever the hit's text or
\* identifier, and never before the search has returned.
C10_ModelCalledIffHits ==
    \A r \in Reqs :
        (req[r].op = "insight") =>
            /\ (req[r].modelCalls >= 1 =>
                  req[r].searchCalls = 1 /\ req[r].results.kind = "ok")
            /\ (req[r].pc = "search" => req[r].modelCalls = 0)
            /\ (req[r].results.kind = "ok" =>
                  req[r].modelCalls = IF HitsOf(r) # <<>> THEN 1 ELSE 0)

C10_Witness ==
    \E r \in Reqs :
        /\ req[r].op = "insight" /\ req[r].modelCalls = 1
        /\ Len(HitsOf(r)) = 1
        /\ strip(Format(TextOf(HitsOf(r)[1]))) = <<>>
        /\ Format(RidOf(HitsOf(r)[1])) = <<>>

====
